---------------------------- MODULE Spec2Model ----------------------------
(***************************************************************************)
(* Scene persistence of yocto_sceneio.cpp: load_scene / save_scene over    *)
(* the builtin JSON document, the per-entity side files, and the           *)
(* parallel_for worker pool that loads and saves them.                     *)
(*                                                                         *)
(* Conventions.  A path is a record [dir, stem, ext]: directory            *)
(* components, file stem and extension (with its dot).  A JSON object is a *)
(* function from keys to values, a JSON array a sequence.  An error string *)
(* is a sequence of message parts [what, path]; the empty sequence is the  *)
(* empty string.  Floats are written as strings ("0.085"), indices are     *)
(* integers counted from 0 as in the source.                               *)
(***************************************************************************)
EXTENDS Integers, Sequences, FiniteSets, TLC

VARIABLES
  op,                \* boundary function the caller invoked
  filename,          \* its path argument
  noparallel,        \* its noparallel argument
  nthreads,          \* std::thread::hardware_concurrency() on this platform
  files,             \* the file system: path -> content
  written,           \* history: path -> number of times this run wrote it
  scene,             \* the caller's scene_data object
  scene0,            \* the scene object before the call ("reload": the scene saved)
  texture,           \* the image_data / texture_data argument of a call on one image
  overread,          \* what an image encoder reading past its buffer does here
  opened,            \* history: the paths a load of one image opened for reading
  error,             \* the caller's error string
  result,            \* "none" while running, then "true", "false" or "throw"
  pc,                \* position of the calling thread
  shape_types,       \* locals of load_json_scene / save_json_scene that
  shape_filenames,   \*   live across the parallel phases
  shape_borders,
  texture_filenames,
  next_idx,          \* parallel_for: std::atomic<T> next_idx
  has_error,         \* parallel_for: std::atomic<bool> has_error
  wpc,               \* parallel_for: position of each worker task
  widx,              \* parallel_for: idx of each worker task
  this_error,        \* parallel_for: this_error of each worker task
  pending,           \* parallel_for: exception stored in each future
  joined,            \* parallel_for: futures the caller has got so far
  unwinding,         \* parallel_for: an exception is leaving the call
  calls              \* history: the per-item calls made, in order

vars == <<op, filename, noparallel, nthreads, files, written, scene, scene0,
          texture, overread, opened, error, result, pc, shape_types, shape_filenames,
          shape_borders, texture_filenames, next_idx, has_error, wpc, widx,
          this_error, pending, joined, unwinding, calls>>

pfvars == <<next_idx, has_error, wpc, widx, this_error, pending, joined,
            unwinding>>

localvars == <<shape_types, shape_filenames, shape_borders, texture_filenames>>

-----------------------------------------------------------------------------
(* Bounds of the model *)

MaxThreads == 2
MaxShapes == 2
MaxTextures == 1

-----------------------------------------------------------------------------
(* Sequence helpers: the source counts from 0 *)

At(seq, idx) == seq[idx + 1]

SetAt(seq, idx, value) == [seq EXCEPT ![idx + 1] = value]

range(n) == 0 .. (n - 1)

SeqsUpTo(S, n) == UNION {[1 .. k -> S] : k \in 0 .. n}

-----------------------------------------------------------------------------
(* PATH UTILITIES *)

Path(dir, stem, ext) == [dir |-> dir, stem |-> stem, ext |-> ext]

EmptyPath == Path(<<>>, "", "")

\* std::filesystem: a file name that is only ".ply" is a stem, not an extension
path_extension(p) == IF p.stem = "" THEN "" ELSE p.ext

path_basename(p) == IF p.stem = "" THEN p.ext ELSE p.stem

\* a directory is a path with no stem and no extension
path_dirname(p) == Path(p.dir, "", "")

path_join(patha, pathb) == Path(patha.dir \o pathb.dir, pathb.stem, pathb.ext)

Dir(name) == Path(<<name>>, "", "")

-----------------------------------------------------------------------------
(* Error strings *)

Msg(what, p) == <<[what |-> what, path |-> p]>>

NamesPath(err) == \E i \in 1 .. Len(err) : err[i].path # EmptyPath

-----------------------------------------------------------------------------
(* Entities: the default-constructed values of yocto_scene.h *)

invalidid == -1

camera_data ==
  [frame |-> "identity", orthographic |-> FALSE, lens |-> "0.050",
   film |-> "0.036", aspect |-> "1.500", focus |-> "10000", aperture |-> "0"]

material_data ==
  [type |-> "matte", emission |-> "0 0 0", color |-> "0 0 0",
   metallic |-> "0", roughness |-> "0", ior |-> "1.5", trdepth |-> "0.01",
   scattering |-> "0 0 0", scanisotropy |-> "0", opacity |-> "1",
   emission_tex |-> invalidid, color_tex |-> invalidid,
   roughness_tex |-> invalidid, scattering_tex |-> invalidid,
   normal_tex |-> invalidid]

instance_data ==
  [frame |-> "identity", shape |-> invalidid, material |-> invalidid,
   border_material |-> invalidid]

\* normals, texcoords, colors and tangents travel with positions and are left out
shape_data ==
  [points |-> <<>>, lines |-> <<>>, triangles |-> <<>>, quads |-> <<>>,
   positions |-> <<>>, radius |-> <<>>, ends |-> <<>>, border_radius |-> "0"]

texture_data ==
  [width |-> 0, height |-> 0, linear |-> FALSE, pixelsf |-> <<>>,
   pixelsb |-> <<>>]

scene_data ==
  [cameras |-> <<>>, instances |-> <<>>, shapes |-> <<>>, textures |-> <<>>,
   materials |-> <<>>, camera_names |-> <<>>, instance_names |-> <<>>,
   shape_names |-> <<>>, texture_names |-> <<>>, material_names |-> <<>>,
   copyright |-> ""]

\* value-initialised elements of vector<float> and vector<line_end>
float_zero == "0"

\* variant: line ends that start out as arrows
line_end_set == TRUE

line_end_zero == FALSE

\* enum line_end, read from the document through a (bool&) cast of "arrow"
line_end_cap == FALSE

line_end_arrow == TRUE

-----------------------------------------------------------------------------
(* FILE IO and JSON SUPPORT *)

path_exists(fs, p) == p \in DOMAIN fs

load_text(fs, p) ==
  IF ~path_exists(fs, p)
    THEN [ok |-> FALSE, error |-> Msg("cannot open", p)]
    ELSE [ok |-> TRUE, text |-> fs[p]]

load_binary(fs, p) ==
  IF ~path_exists(fs, p)
    THEN [ok |-> FALSE, error |-> Msg("cannot open", p)]
    ELSE [ok |-> TRUE, data |-> fs[p]]

\* fopen for writing: the directory of the file has to exist
can_create(fs, p) ==
  /\ path_exists(fs, path_dirname(p))
  /\ fs[path_dirname(p)].kind = "dir"

Write(fs, p, data) == [q \in DOMAIN fs \cup {p} |-> IF q = p THEN data ELSE fs[q]]

\* save_text / save_binary
save_binary(fs, p, data) ==
  IF ~can_create(fs, p)
    THEN [ok |-> FALSE, files |-> fs, error |-> Msg("cannot create", p)]
    ELSE [ok |-> TRUE, files |-> Write(fs, p, data), error |-> <<>>]

load_json(fs, p) ==
  LET t == load_text(fs, p) IN
    IF ~t.ok THEN [ok |-> FALSE, error |-> t.error]
    ELSE IF t.text.kind # "json"
      THEN [ok |-> FALSE, error |-> Msg("cannot parse", p)]
      ELSE [ok |-> TRUE, json |-> t.text.json]

contains(json, key) == key \in DOMAIN json

\* json.value(key, value): the stored value, or the given one when absent
get_opt(json, key, value) == IF contains(json, key) THEN json[key] ELSE value

\* get_opt over the named fields of an entity
get_fields(json, value, keys) ==
  [k \in DOMAIN value |->
     IF k \in keys THEN get_opt(json, k, value[k]) ELSE value[k]]

-----------------------------------------------------------------------------
(* IMAGE IO *)

is_hdr_filename(p) ==
  LET ext == path_extension(p) IN ext = ".hdr" \/ ext = ".exr" \/ ext = ".pfm"

is_ldr_filename(p) ==
  LET ext == path_extension(p) IN
    ext = ".png" \/ ext = ".jpg" \/ ext = ".jpeg" \/ ext = ".bmp" \/ ext = ".tga"

\* the preset names of make_image_preset the model draws from
PresetCatalog == {"grid", "checker", "bumps", "uvramp", "sky", "sunsky"}

\* path_basename of a bare name: std::filesystem stem() drops what follows
\* the last dot of the names that have one
stem(name) ==
  IF name = "grid.v2" THEN "grid"
  ELSE IF name = "nosuch.v2" THEN "nosuch"
  ELSE name

image_data == [width |-> 0, height |-> 0, linear |-> FALSE, pixels |-> <<>>]

\* make_image_preset(type_): the generated image, empty for an unknown name;
\* the name it looks up is path_basename(type_)
make_image_preset(type_) ==
  LET type == stem(type_) IN
    IF type \in PresetCatalog
      THEN [width |-> 1, height |-> 1,
            linear |-> (type = "sky" \/ type = "sunsky"),
            pixels |-> <<type>>]
      ELSE image_data

\* image_to_texture: float pixels for a linear image, bytes otherwise
image_to_texture(image) ==
  [width |-> image.width, height |-> image.height, linear |-> image.linear,
   pixelsf |-> IF image.linear THEN image.pixels ELSE <<>>,
   pixelsb |-> IF image.linear THEN <<>> ELSE image.pixels]

\* make_texture_preset(filename, texture, error): opens no file
make_texture_preset(p, tex) ==
  LET made == image_to_texture(make_image_preset(path_basename(p))) IN
    IF made.width = 0 \/ made.height = 0
      THEN [ok |-> FALSE, texture |-> made, opened |-> {},
            error |-> Msg("unknown preset", EmptyPath)]
      ELSE [ok |-> TRUE, texture |-> made, opened |-> {}, error |-> <<>>]

\* make_image_preset(filename, image, error): opens no file
load_image_preset(p) ==
  LET made == make_image_preset(path_basename(p)) IN
    IF made.pixels = <<>>
      THEN [ok |-> FALSE, image |-> made, opened |-> {},
            error |-> Msg("unknown preset", EmptyPath)]
      ELSE [ok |-> TRUE, image |-> made, opened |-> {}, error |-> <<>>]

\* load_image(filename, image, error): every file format goes through
\* load_binary; fields are assigned only on success
load_image(fs, p, image) ==
  LET ext == path_extension(p)
      b == load_binary(fs, p)
      decoded(linear) ==
        IF ~b.ok
          THEN [ok |-> FALSE, image |-> image, opened |-> {p},
                error |-> b.error]
        ELSE IF b.data.kind # "image" \/ b.data.linear # linear
          THEN [ok |-> FALSE, image |-> image, opened |-> {p},
                error |-> Msg("cannot read", p)]
          ELSE [ok |-> TRUE, opened |-> {p}, error |-> <<>>,
                image |-> [width |-> b.data.width, height |-> b.data.height,
                           linear |-> linear, pixels |-> b.data.pixels]]
  IN
    IF ext \in {".exr", ".EXR", ".hdr", ".HDR"} THEN decoded(TRUE)
    ELSE IF ext \in {".png", ".PNG", ".jpg", ".JPG", ".jpeg", ".JPEG",
                     ".tga", ".TGA", ".bmp", ".BMP"} THEN decoded(FALSE)
    ELSE IF ext = ".ypreset" \/ ext = ".YPRESET" THEN load_image_preset(p)
    ELSE [ok |-> FALSE, image |-> image, opened |-> {},
          error |-> Msg("unsupported format", p)]

-----------------------------------------------------------------------------
(* SHAPE IO *)

\* load_ply / load_obj / load_stl: the mesh a file holds, or the reader's error
read_mesh(fs, p) ==
  IF ~path_exists(fs, p)
    THEN [ok |-> FALSE, error |-> Msg("cannot open", p)]
    ELSE IF fs[p].kind # "mesh"
      THEN [ok |-> FALSE, error |-> Msg("cannot read", p)]
      ELSE [ok |-> TRUE, mesh |-> fs[p]]

NoElements(shape) ==
  /\ shape.points = <<>>
  /\ shape.lines = <<>>
  /\ shape.triangles = <<>>
  /\ shape.quads = <<>>

\* load_shape(filename, shape, error): the shape is reset before the dispatch
load_shape(fs, p) ==
  LET ext == path_extension(p)
      m == read_mesh(fs, p)
      loaded(fields) ==
        [k \in DOMAIN shape_data |->
           IF k \in fields THEN m.mesh[k] ELSE shape_data[k]]
      checked(shape) ==
        IF NoElements(shape)
          THEN [ok |-> FALSE, shape |-> shape, error |-> Msg("empty shape", p)]
          ELSE [ok |-> TRUE, shape |-> shape, error |-> <<>>]
      failed == [ok |-> FALSE, shape |-> shape_data, error |-> m.error]
  IN
    IF ext = ".ply" \/ ext = ".PLY" THEN
      IF ~m.ok THEN failed
      ELSE checked(loaded({"positions", "radius", "triangles", "quads",
                           "lines", "points"}))
    ELSE IF ext = ".obj" \/ ext = ".OBJ" THEN
      IF ~m.ok THEN failed
      ELSE checked(loaded({"positions", "triangles", "quads", "lines",
                           "points"}))
    ELSE IF ext = ".stl" \/ ext = ".STL" THEN
      IF ~m.ok THEN failed
      ELSE checked(loaded({"positions", "triangles"}))
    ELSE [ok |-> FALSE, shape |-> shape_data,
          error |-> Msg("unsupported format", p)]

-----------------------------------------------------------------------------
(* TEXTURE IO *)

\* load_texture(filename, texture, error): fields are assigned only on success
load_texture(fs, p, tex) ==
  LET ext == path_extension(p)
      b == load_binary(fs, p)
      \* LoadEXR opens the file itself; the other formats go through load_binary
      decoded(linear, direct) ==
        IF ~b.ok /\ ~direct
          THEN [ok |-> FALSE, texture |-> tex, opened |-> {p},
                error |-> b.error]
        ELSE IF ~b.ok \/ b.data.kind # "image" \/ b.data.linear # linear
          THEN [ok |-> FALSE, texture |-> tex, opened |-> {p},
                error |-> Msg("cannot raed", p)]
          ELSE [ok |-> TRUE, opened |-> {p}, error |-> <<>>,
                texture |->
                  [tex EXCEPT !.width = b.data.width,
                              !.height = b.data.height,
                              !.linear = linear,
                              !.pixelsf = IF linear THEN b.data.pixels ELSE @,
                              !.pixelsb = IF linear THEN @ ELSE b.data.pixels]]
  IN
    IF ext = ".exr" \/ ext = ".EXR" THEN decoded(TRUE, TRUE)
    ELSE IF ext = ".hdr" \/ ext = ".HDR" THEN decoded(TRUE, FALSE)
    ELSE IF ext \in {".png", ".PNG", ".jpg", ".JPG", ".jpeg", ".JPEG",
                     ".tga", ".TGA", ".bmp", ".BMP"} THEN decoded(FALSE, FALSE)
    ELSE IF ext = ".ypreset" \/ ext = ".YPRESET" THEN make_texture_preset(p, tex)
    ELSE [ok |-> FALSE, texture |-> tex, opened |-> {},
          error |-> Msg("unsupported format", p)]

-----------------------------------------------------------------------------
(* JSON IO: parsing the document (load_json_scene, "parsing values") *)

Map(seq, f(_)) == [i \in 1 .. Len(seq) |-> f(seq[i])]

group(json, key) == IF contains(json, key) THEN json[key] ELSE <<>>

parse_name(element) == get_opt(element, "name", "")

parse_camera(element) ==
  get_fields(element, camera_data,
             {"frame", "orthographic", "lens", "aspect", "film", "focus",
              "aperture"})

parse_material(element) ==
  get_fields(element, material_data,
             {"type", "emission", "color", "metallic", "roughness", "ior",
              "trdepth", "scattering", "scanisotropy", "opacity",
              "emission_tex", "color_tex", "roughness_tex", "scattering_tex",
              "normal_tex"})

parse_instance(element) ==
  get_fields(element, instance_data,
             {"frame", "shape", "material", "border_material"})

\* the type a shape element is parsed as: anything but the four inline
\* forms is a reference to a mesh file
parse_shape_type(element) ==
  LET type == get_opt(element, "type", "") IN
    IF type \in {"point", "line", "triangle", "quad"} THEN type ELSE "uri"

zero3f == "0 0 0"

parse_shape(element) ==
  LET type == parse_shape_type(element)
      position(key) == get_opt(element, key, zero3f)
      radius(key) == get_opt(element, key, float_zero)
      arrow(key) == get_opt(element, key, line_end_zero)
      border == get_opt(element, "border_size", shape_data.border_radius)
  IN
    IF type = "point" THEN
      [shape_data EXCEPT !.positions = <<position("position")>>,
                         !.radius = <<radius("radius")>>,
                         !.points = <<0>>]
    ELSE IF type = "line" THEN
      [shape_data EXCEPT !.positions = <<position("position1"),
                                         position("position2")>>,
                         !.radius = <<radius("radius1"), radius("radius2")>>,
                         !.ends = <<arrow("arrow1"), arrow("arrow2")>>,
                         !.lines = <<<<0, 1>>>>]
    ELSE IF type = "triangle" THEN
      [shape_data EXCEPT !.positions = <<position("position1"),
                                         position("position2"),
                                         position("position3")>>,
                         !.triangles = <<<<0, 1, 2>>>>,
                         !.border_radius = border]
    ELSE IF type = "quad" THEN
      [shape_data EXCEPT !.positions = <<position("position1"),
                                         position("position2"),
                                         position("position3"),
                                         position("position4")>>,
                         !.quads = <<<<0, 1, 2, 3>>>>,
                         !.border_radius = border]
    ELSE shape_data

parse_shape_uri(element) ==
  IF parse_shape_type(element) = "uri"
    THEN get_opt(element, "uri", EmptyPath) ELSE EmptyPath

parse_shape_border(element) ==
  IF parse_shape_type(element) = "uri"
    THEN get_opt(element, "border_size", float_zero) ELSE float_zero

parse_texture_uri(element) == get_opt(element, "uri", EmptyPath)

parse_texture(element) == texture_data

\* every group appends to the scene the caller passed in
parse_scene(json, sc) ==
  [sc EXCEPT
     !.copyright = IF contains(json, "asset")
                     THEN get_opt(json["asset"], "copyright", @) ELSE @,
     !.cameras = @ \o Map(group(json, "cameras"), parse_camera),
     !.camera_names = @ \o Map(group(json, "cameras"), parse_name),
     !.textures = @ \o Map(group(json, "textures"), parse_texture),
     !.texture_names = @ \o Map(group(json, "textures"), parse_name),
     !.materials = @ \o Map(group(json, "materials"), parse_material),
     !.material_names = @ \o Map(group(json, "materials"), parse_name),
     !.shapes = @ \o Map(group(json, "shapes"), parse_shape),
     !.shape_names = @ \o Map(group(json, "shapes"), parse_name),
     !.instances = @ \o Map(group(json, "instances"), parse_instance),
     !.instance_names = @ \o Map(group(json, "instances"), parse_name)]

\* variant: a version check that lets every document through
version_any(json) == TRUE

\* the first version check of load_json_scene
version_ok(json) ==
  /\ contains(json, "asset")
  /\ contains(json["asset"], "version")
  /\ json["asset"]["version"] = "4.2"

\* the version check inside "parsing values"
version_parses(json) ==
  contains(json, "asset") =>
    get_opt(json["asset"], "version", "") \in {"4.2", "5.0"}

-----------------------------------------------------------------------------
(* SCENE UTILITIES: the repair pass *)

add_missing_camera(sc) ==
  IF sc.cameras # <<>> THEN sc
  ELSE [sc EXCEPT
          !.camera_names = Append(@, "camera"),
          !.cameras = Append(@,
            [camera_data EXCEPT !.orthographic = FALSE,
                                !.film = "0.036",
                                !.aspect = "16/9",
                                !.aperture = "0",
                                !.lens = "0.050",
                                !.frame = "lookat_frame(from, to, up)",
                                !.focus = "length(from - to)"])]

default_radius == "0.001"

add_missing_radius(sc) ==
  [sc EXCEPT !.shapes = Map(@, LAMBDA shape :
     IF shape.points = <<>> /\ shape.lines = <<>> THEN shape
     ELSE IF shape.radius # <<>> THEN shape
     ELSE [shape EXCEPT !.radius = Map(shape.positions,
                                       LAMBDA x : default_radius)])]

add_missing_caps(sc) ==
  [sc EXCEPT !.shapes = Map(@, LAMBDA shape :
     IF shape.lines # <<>> /\ shape.ends = <<>>
       THEN [shape EXCEPT !.ends = Map(shape.positions,
                                       LAMBDA x : line_end_cap)]
       ELSE shape)]

\* variant: a pass that makes the default material before it looks at the
\* instances
add_missing_material_eager(sc) ==
  [sc EXCEPT
     !.materials = Append(@, [material_data EXCEPT !.color = "0.8 0.8 0.8"]),
     !.instances = Map(@, LAMBDA instance :
        IF instance.material >= 0 THEN instance
        ELSE [instance EXCEPT !.material = Len(sc.materials)])]

\* variant: a pass that makes a default material for each instance without
\* one
add_missing_material_each(sc) ==
  LET missing == SelectSeq(sc.instances, LAMBDA instance : instance.material < 0)
  IN [sc EXCEPT
        !.materials = @ \o Map(missing, LAMBDA instance :
                                 [material_data EXCEPT !.color = "0.8 0.8 0.8"]),
        !.instances = Map(@, LAMBDA instance :
           IF instance.material >= 0 THEN instance
           ELSE [instance EXCEPT
                   !.material = Len(sc.materials) + Len(missing) - 1])]

\* the index the default material gets, or invalidid when no instance needs it
default_material(sc) ==
  IF \E i \in 1 .. Len(sc.instances) : sc.instances[i].material < 0
    THEN Len(sc.materials) ELSE invalidid

add_missing_material(sc) ==
  IF default_material(sc) = invalidid THEN sc
  ELSE [sc EXCEPT
          !.materials = Append(@, [material_data EXCEPT !.color = "0.8 0.8 0.8"]),
          !.instances = Map(@, LAMBDA instance :
             IF instance.material >= 0 THEN instance
             ELSE [instance EXCEPT !.material = default_material(sc)])]

\* shrink_to_fit changes capacities only
trim_memory(sc) == sc

\* "fix scene" at the end of load_json_scene
fix_scene(sc) ==
  trim_memory(add_missing_caps(add_missing_radius(add_missing_camera(sc))))

-----------------------------------------------------------------------------
(* The per-item functions of load_json_scene ("load resources") *)

Locals(types, filenames, borders, tfilenames) ==
  [shape_types |-> types, shape_filenames |-> filenames,
   shape_borders |-> borders, texture_filenames |-> tfilenames]

\* the vectors load_json_scene fills while parsing
load_locals(json) ==
  Locals(Map(group(json, "shapes"), parse_shape_type),
         Map(group(json, "shapes"), parse_shape_uri),
         Map(group(json, "shapes"), parse_shape_border),
         Map(group(json, "textures"), parse_texture_uri))

World(sc, fs, wr) == [scene |-> sc, files |-> fs, written |-> wr]

ItemOk(w) == [outcome |-> "ok", world |-> w, error |-> <<>>]

\* variant: every shape is passed to load_shape, whatever its type
load_shape_item_all(loc, dirname, w, idx) ==
  LET r == load_shape(w.files,
                      path_join(dirname, At(loc.shape_filenames, idx)))
  IN IF ~r.ok
       THEN [outcome |-> "error", error |-> r.error,
             world |-> [w EXCEPT !.scene.shapes = SetAt(@, idx, r.shape)]]
       ELSE ItemOk([w EXCEPT !.scene.shapes =
              SetAt(@, idx, [r.shape EXCEPT !.border_radius =
                               At(loc.shape_borders, idx)])])

\* shapes: only a reference-form shape is passed to load_shape; its slot is
\* reset by load_shape and gets the border of the document on success
load_shape_item(loc, dirname, w, idx) ==
  IF At(loc.shape_types, idx) # "uri" THEN ItemOk(w)
  ELSE LET r == load_shape(w.files,
                           path_join(dirname, At(loc.shape_filenames, idx)))
       IN IF ~r.ok
            THEN [outcome |-> "error", error |-> r.error,
                  world |-> [w EXCEPT !.scene.shapes = SetAt(@, idx, r.shape)]]
            ELSE ItemOk([w EXCEPT !.scene.shapes =
                   SetAt(@, idx, [r.shape EXCEPT !.border_radius =
                                    At(loc.shape_borders, idx)])])

load_texture_item(loc, dirname, w, idx) ==
  LET r == load_texture(w.files,
                        path_join(dirname, At(loc.texture_filenames, idx)),
                        At(w.scene.textures, idx))
  IN IF ~r.ok
       THEN [outcome |-> "error", error |-> r.error,
             world |-> [w EXCEPT !.scene.textures = SetAt(@, idx, r.texture)]]
       ELSE ItemOk([w EXCEPT !.scene.textures = SetAt(@, idx, r.texture)])

\* history of the per-item calls: item -> number of times it was called
NoCalls == <<>>

Called(c, x) == IF x \in DOMAIN c THEN [c EXCEPT ![x] = @ + 1] ELSE c @@ (x :> 1)

TimesCalled(c, x) == IF x \in DOMAIN c THEN c[x] ELSE 0

-----------------------------------------------------------------------------
(* Saving shapes and textures *)

MeshFile(shape, fields) ==
  [k \in {"kind", "positions", "radius", "points", "lines", "triangles",
          "quads"} |->
     IF k = "kind" THEN "mesh" ELSE IF k \in fields THEN shape[k] ELSE <<>>]

quads_to_triangles(quads) ==
  IF quads = <<>> THEN <<>>
  ELSE <<<<quads[1][1], quads[1][2], quads[1][4]>>,
         <<quads[1][3], quads[1][4], quads[1][2]>>>>

\* save_shape(filename, shape, error)
save_shape(fs, p, shape) ==
  LET ext == path_extension(p)
      saved(data) ==
        LET b == save_binary(fs, p, data) IN
          [outcome |-> IF b.ok THEN "ok" ELSE "error", files |-> b.files,
           error |-> b.error]
      shape_error == [outcome |-> "error", files |-> fs,
                      error |-> Msg("empty shape", p)]
  IN
    IF ext = ".ply" \/ ext = ".PLY" THEN
      saved(MeshFile(shape, {"positions", "radius", "triangles", "quads",
                             "lines", "points"}))
    ELSE IF ext = ".obj" \/ ext = ".OBJ" THEN
      saved(MeshFile(shape, {"positions", "triangles", "quads", "lines",
                             "points"}))
    ELSE IF ext = ".stl" \/ ext = ".STL" THEN
      IF shape.lines # <<>> \/ shape.points # <<>> THEN shape_error
      ELSE IF shape.triangles # <<>> THEN
        saved(MeshFile(shape, {"positions", "triangles"}))
      ELSE IF shape.quads # <<>> THEN
        saved(MeshFile([shape EXCEPT !.triangles = quads_to_triangles(shape.quads)],
                       {"positions", "triangles"}))
      ELSE shape_error
    ELSE IF ext = ".cpp" \/ ext = ".CPP" THEN
      saved([kind |-> "text"])
    ELSE [outcome |-> "error", files |-> fs,
          error |-> Msg("unsupported format", p)]

ImageFile(tex, linear, pixels) ==
  [kind |-> "image", linear |-> linear, width |-> tex.width,
   height |-> tex.height, pixels |-> pixels]

\* the "check for correct handling" of save_texture
texture_mismatch(p, tex) ==
  \/ tex.pixelsf # <<>> /\ is_ldr_filename(p)
  \/ tex.pixelsb # <<>> /\ is_hdr_filename(p)

\* save_texture(filename, texture, error): throws std::invalid_argument on a
\* mismatch its check sees, then encodes the buffer its extension selects
save_texture(fs, p, tex) ==
  LET ext == path_extension(p)
      saved(data) ==
        LET b == save_binary(fs, p, data) IN
          [outcome |-> IF b.ok THEN "ok" ELSE "error", files |-> b.files,
           error |-> b.error]
      \* the encoder is handed pixels.data() and reads width * height pixels:
      \* past the end of a shorter buffer, which is undefined
      encoded(linear, pixels) ==
        IF Len(pixels) >= tex.width * tex.height
          THEN saved(ImageFile(tex, linear, pixels))
        ELSE IF overread = "encodes"
          THEN saved(ImageFile(tex, linear, <<"past the end">>))
        ELSE IF overread = "fails"
          THEN [outcome |-> "error", files |-> fs,
                error |-> Msg("cannot write", p)]
          ELSE [outcome |-> "crash", files |-> fs, error |-> <<>>]
  IN
    IF texture_mismatch(p, tex) THEN
      [outcome |-> "throw", files |-> fs, error |-> <<>>]
    ELSE IF ext \in {".hdr", ".HDR", ".exr", ".EXR"} THEN
      encoded(TRUE, tex.pixelsf)
    ELSE IF ext \in {".png", ".PNG", ".jpg", ".JPG", ".jpeg", ".JPEG",
                     ".tga", ".TGA", ".bmp", ".BMP"} THEN
      encoded(FALSE, tex.pixelsb)
    ELSE [outcome |-> "error", files |-> fs,
          error |-> Msg("unsupported format", p)]

-----------------------------------------------------------------------------
(* JSON IO: writing the document (save_json_scene) *)

get_name(names, idx) == IF idx < Len(names) THEN At(names, idx) ELSE ""

get_filename(names, idx, basename, extension) ==
  IF idx < Len(names)
    THEN Path(<<basename \o "s">>, At(names, idx), extension)
    ELSE Path(<<basename \o "s">>, basename \o ToString(idx), extension)

save_shape_filenames(sc) ==
  [i \in 1 .. Len(sc.shapes) |->
     get_filename(sc.shape_names, i - 1, "shape", ".ply")]

\* variant: every texture file gets the extension ".png"
save_texture_filenames_png(sc) ==
  [i \in 1 .. Len(sc.textures) |->
     get_filename(sc.texture_names, i - 1, "texture", ".png")]

save_texture_filenames(sc) ==
  [i \in 1 .. Len(sc.textures) |->
     get_filename(sc.texture_names, i - 1, "texture",
                  IF sc.textures[i].pixelsf = <<>> THEN ".png" ELSE ".hdr")]

save_locals(sc) ==
  Locals(<<>>, save_shape_filenames(sc), <<>>, save_texture_filenames(sc))

\* set_val over a name and the listed fields: a key is written only when its
\* value differs from the default
element(name, value, default, keys) ==
  LET changed == {k \in keys : value[k] # default[k]}
      named == IF name # "" THEN {"name"} ELSE {}
  IN [k \in changed \cup named |-> IF k = "name" THEN name ELSE value[k]]

uri_element(name, uri) ==
  [k \in (IF name # "" THEN {"name"} ELSE {}) \cup
         (IF uri # EmptyPath THEN {"uri"} ELSE {}) |->
     IF k = "name" THEN name ELSE uri]

save_asset(sc) ==
  [k \in {"generator", "version"} \cup
         (IF sc.copyright # "" THEN {"copyright"} ELSE {}) |->
     IF k = "generator" THEN "Yocto/GL - https://github.com/xelatihy/yocto-gl"
     ELSE IF k = "version" THEN "4.2" ELSE sc.copyright]

save_json(sc) ==
  LET loc == save_locals(sc)
      groups == {"asset"}
                  \cup (IF sc.cameras # <<>> THEN {"cameras"} ELSE {})
                  \cup (IF sc.textures # <<>> THEN {"textures"} ELSE {})
                  \cup (IF sc.materials # <<>> THEN {"materials"} ELSE {})
                  \cup (IF sc.shapes # <<>> THEN {"shapes"} ELSE {})
                  \cup (IF sc.instances # <<>> THEN {"instances"} ELSE {})
  IN [g \in groups |->
       IF g = "asset" THEN save_asset(sc)
       ELSE IF g = "cameras" THEN
         [i \in 1 .. Len(sc.cameras) |->
            element(get_name(sc.camera_names, i - 1), sc.cameras[i],
                    camera_data,
                    {"frame", "orthographic", "lens", "aspect", "film",
                     "focus", "aperture"})]
       ELSE IF g = "textures" THEN
         [i \in 1 .. Len(sc.textures) |->
            uri_element(get_name(sc.texture_names, i - 1),
                        loc.texture_filenames[i])]
       ELSE IF g = "materials" THEN
         [i \in 1 .. Len(sc.materials) |->
            element(get_name(sc.material_names, i - 1), sc.materials[i],
                    material_data,
                    {"type", "emission", "color", "metallic", "roughness",
                     "ior", "trdepth", "scattering", "scanisotropy",
                     "opacity", "emission_tex", "color_tex", "roughness_tex",
                     "scattering_tex", "normal_tex"})]
       ELSE IF g = "shapes" THEN
         [i \in 1 .. Len(sc.shapes) |->
            uri_element(get_name(sc.shape_names, i - 1),
                        loc.shape_filenames[i])]
       ELSE
         [i \in 1 .. Len(sc.instances) |->
            element(get_name(sc.instance_names, i - 1), sc.instances[i],
                    instance_data, {"frame", "shape", "material"})]]

-----------------------------------------------------------------------------
(* The per-item functions of save_json_scene *)

Wrote(w, p, saved) ==
  [w EXCEPT !.files = saved.files,
            !.written = IF saved.outcome = "ok" THEN Called(@, p) ELSE @]

\* variant: a shape save that fails takes back the documents written so far
save_shape_item_rollback(loc, dirname, w, idx) ==
  LET p == path_join(dirname, At(loc.shape_filenames, idx))
      r == save_shape(w.files, p, At(w.scene.shapes, idx))
      kept == {q \in DOMAIN r.files : r.files[q].kind # "json"}
  IN IF r.outcome = "ok"
       THEN [outcome |-> r.outcome, error |-> r.error, world |-> Wrote(w, p, r)]
       ELSE [outcome |-> r.outcome, error |-> r.error,
             world |-> [w EXCEPT !.files = [q \in kept |-> r.files[q]]]]

save_shape_item(loc, dirname, w, idx) ==
  LET p == path_join(dirname, At(loc.shape_filenames, idx))
      r == save_shape(w.files, p, At(w.scene.shapes, idx))
  IN [outcome |-> r.outcome, error |-> r.error, world |-> Wrote(w, p, r)]

save_texture_item(loc, dirname, w, idx) ==
  LET p == path_join(dirname, At(loc.texture_filenames, idx))
      r == save_texture(w.files, p, At(w.scene.textures, idx))
  IN [outcome |-> r.outcome, error |-> r.error, world |-> Wrote(w, p, r)]

\* the function parallel_for, or the sequential loop, runs in each phase
item(phase, loc, dirname, w, idx) ==
  IF phase = "load_shapes" THEN load_shape_item(loc, dirname, w, idx)
  ELSE IF phase = "load_textures" THEN load_texture_item(loc, dirname, w, idx)
  ELSE IF phase = "save_shapes" THEN save_shape_item(loc, dirname, w, idx)
  ELSE save_texture_item(loc, dirname, w, idx)

\* the number of items of a phase
items(phase, sc) ==
  IF phase \in {"load_shapes", "save_shapes"}
    THEN Len(sc.shapes) ELSE Len(sc.textures)

-----------------------------------------------------------------------------
(* The noparallel branch: the items of a phase in index order, stopping at    *)
(* the first one that fails or throws                                         *)

\* one pass of a loop body: the item's outcome, with the call recorded
loop_body(phase, loc, dirname, st, idx) ==
  item(phase, loc, dirname, st.world, idx)
    @@ [calls |-> Called(st.calls, <<phase, idx>>)]

\* variant: loops that go on after an item has failed, keeping the first error
resources_keep_going(first, second, loc, dirname, w) ==
  LET ns == items(first, w.scene)
      nt == items(second, w.scene)
      after[i \in 0 .. ns + nt] ==
        IF i = 0
          THEN [outcome |-> "ok", world |-> w, error |-> <<>>,
                calls |-> NoCalls]
        ELSE IF after[i - 1].outcome # "ok"
          THEN [after[i - 1] EXCEPT !.calls =
                  Called(@, IF i <= ns THEN <<first, i - 1>>
                            ELSE <<second, i - 1 - ns>>)]
        ELSE IF i <= ns
          THEN loop_body(first, loc, dirname, after[i - 1], i - 1)
          ELSE loop_body(second, loc, dirname, after[i - 1], i - 1 - ns)
  IN after[ns + nt]

\* for (auto idx : range(shapes.size())) if (!f(idx)) return dependent_error();
\* for (auto idx : range(textures.size())) if (!g(idx)) return dependent_error();
resources_noparallel(first, second, loc, dirname, w) ==
  LET ns == items(first, w.scene)
      nt == items(second, w.scene)
      after[i \in 0 .. ns + nt] ==
        IF i = 0
          THEN [outcome |-> "ok", world |-> w, error |-> <<>>,
                calls |-> NoCalls]
        ELSE IF after[i - 1].outcome # "ok" THEN after[i - 1]
        ELSE IF i <= ns
          THEN loop_body(first, loc, dirname, after[i - 1], i - 1)
          ELSE loop_body(second, loc, dirname, after[i - 1], i - 1 - ns)
  IN after[ns + nt]

dependent_error(what, p, err) == Msg(what, p) \o err

-----------------------------------------------------------------------------
(* parallel_for *)

Workers == 1 .. nthreads

Phases == {"load_shapes", "load_textures", "save_shapes", "save_textures"}

NoException == "none"

\* the prologue of parallel_for: the shared state, and one task per thread
parallel_for(phase) ==
  /\ pc' = phase
  /\ next_idx' = 0
  /\ has_error' = FALSE
  /\ wpc' = [w \in Workers |-> "check"]
  /\ widx' = [w \in Workers |-> 0]
  /\ this_error' = [w \in Workers |-> <<>>]
  /\ pending' = [w \in Workers |-> NoException]
  /\ joined' = 0
  /\ unwinding' = FALSE

\* the state of parallel_for outside a call of it
pf_idle ==
  /\ next_idx = 0
  /\ has_error = FALSE
  /\ wpc = <<>>
  /\ widx = <<>>
  /\ this_error = <<>>
  /\ pending = <<>>
  /\ joined = 0
  /\ unwinding = FALSE

pf_reset ==
  /\ next_idx' = 0
  /\ has_error' = FALSE
  /\ wpc' = <<>>
  /\ widx' = <<>>
  /\ this_error' = <<>>
  /\ pending' = <<>>
  /\ joined' = 0
  /\ unwinding' = FALSE

\* if (has_error) break;
WorkerCheck(w) ==
  /\ pc \in Phases
  /\ wpc[w] = "check"
  /\ wpc' = [wpc EXCEPT ![w] = IF has_error THEN "done" ELSE "fetch"]
  /\ UNCHANGED <<op, filename, noparallel, nthreads, files, written, scene,
                 scene0, texture, overread, opened, error, result, pc, localvars, next_idx,
                 has_error, widx, this_error, pending, joined, calls, unwinding>>

\* variant: an addition that hands out the previous value once more
fetch_add_stale(counter, arg) ==
  [old |-> IF counter > 0 THEN counter - 1 ELSE 0, new |-> counter + arg]

\* std::atomic<T>::fetch_add: the value before the addition, and the value stored
fetch_add(counter, arg) == [old |-> counter, new |-> counter + arg]

\* auto idx = next_idx.fetch_add(1); if (idx >= num) break;
WorkerFetch(w) ==
  /\ pc \in Phases
  /\ wpc[w] = "fetch"
  /\ \E idx \in {fetch_add(next_idx, 1).old} :
       IF idx >= items(pc, scene)
         THEN wpc' = [wpc EXCEPT ![w] = "done"] /\ UNCHANGED widx
         ELSE wpc' = [wpc EXCEPT ![w] = "call"]
              /\ widx' = [widx EXCEPT ![w] = idx]
  /\ next_idx' = fetch_add(next_idx, 1).new
  /\ UNCHANGED <<op, filename, noparallel, nthreads, files, written, scene,
                 scene0, texture, overread, opened, error, result, pc, localvars, has_error,
                 this_error, pending, joined, calls, unwinding>>

\* the item the worker's call of func works on, and the slot it writes
call_idx(w) == widx[w]

\* func(idx, this_error)
WorkerCall(w) ==
  /\ pc \in Phases
  /\ wpc[w] = "call"
  /\ LET r == item(pc, Locals(shape_types, shape_filenames, shape_borders,
                              texture_filenames),
                   path_dirname(filename), World(scene, files, written),
                   call_idx(w))
     IN /\ scene' = r.world.scene
        /\ files' = r.world.files
        /\ written' = r.world.written
        /\ calls' = Called(calls, <<pc, widx[w]>>)
        /\ this_error' = [this_error EXCEPT ![w] =
                            IF r.outcome = "error" THEN r.error ELSE @]
        /\ pending' = [pending EXCEPT ![w] =
                         IF r.outcome = "throw" THEN "invalid_argument" ELSE @]
        /\ wpc' = [wpc EXCEPT ![w] =
                     IF r.outcome = "ok" THEN "check"
                     ELSE IF r.outcome = "error" THEN "flag" ELSE "done"]
        /\ widx' = [widx EXCEPT ![w] = 0]
  /\ UNCHANGED <<op, filename, noparallel, nthreads, scene0, texture, overread, opened, error,
                 result, pc, localvars, next_idx, has_error, joined, unwinding>>

\* has_error = true;
WorkerFlag(w) ==
  /\ pc \in Phases
  /\ wpc[w] = "flag"
  /\ has_error' = TRUE
  /\ wpc' = [wpc EXCEPT ![w] = "lock"]
  /\ UNCHANGED <<op, filename, noparallel, nthreads, files, written, scene,
                 scene0, texture, overread, opened, error, result, pc, localvars, next_idx,
                 widx, this_error, pending, joined, calls, unwinding>>

\* auto _ = std::lock_guard{error_mutex}; error = this_error; break;
WorkerError(w) ==
  /\ pc \in Phases
  /\ wpc[w] = "lock"
  /\ error' = this_error[w]
  /\ wpc' = [wpc EXCEPT ![w] = "done"]
  /\ UNCHANGED <<op, filename, noparallel, nthreads, files, written, scene,
                 scene0, texture, overread, opened, result, pc, localvars, next_idx, has_error,
                 widx, this_error, pending, joined, calls, unwinding>>

\* variant: a get that does not wait for the task
future_detached(f) == TRUE

\* whether the caller may pass future f: f.get() blocks until the task is done
future_ready(f) == wpc[f] = "done"

\* for (auto& f : futures) f.get();  -- a get that finds no exception
Join ==
  /\ pc \in Phases
  /\ ~unwinding
  /\ joined < nthreads
  /\ future_ready(joined + 1)
  /\ pending[joined + 1] = NoException
  /\ joined' = joined + 1
  /\ UNCHANGED <<op, filename, noparallel, nthreads, files, written, scene,
                 scene0, texture, overread, opened, error, result, pc, localvars, next_idx,
                 has_error, wpc, widx, this_error, pending, calls, unwinding>>

\* a get that rethrows the task's exception: it leaves parallel_for
JoinThrow ==
  /\ pc \in Phases
  /\ ~unwinding
  /\ joined < nthreads
  /\ future_ready(joined + 1)
  /\ pending[joined + 1] # NoException
  /\ unwinding' = TRUE
  /\ UNCHANGED <<op, filename, noparallel, nthreads, files, written, scene,
                 scene0, texture, overread, opened, error, result, pc, localvars, next_idx,
                 has_error, wpc, widx, this_error, pending, joined, calls>>

\* unwinding destroys the futures; the destructor of a std::async future
\* blocks until its task has finished
Unwind ==
  /\ pc \in Phases
  /\ unwinding
  /\ \A w \in Workers : wpc[w] = "done"
  /\ pc' = "done"
  /\ result' = "throw"
  /\ UNCHANGED <<op, filename, noparallel, nthreads, files, written, scene,
                 scene0, texture, overread, opened, error, localvars, pfvars, calls>>

second_phase(phase) ==
  IF phase = "load_shapes" THEN "load_textures" ELSE "save_textures"

\* return !(bool)has_error;  and what the caller does with it
Return ==
  /\ pc \in Phases
  /\ ~unwinding
  /\ joined = nthreads
  /\ IF has_error THEN
       /\ error' = dependent_error(
            IF pc \in {"load_shapes", "load_textures"}
              THEN "cannot load" ELSE "cannot save", filename, error)
       /\ result' = "false"
       /\ pc' = "done"
       /\ UNCHANGED <<scene, pfvars>>
     ELSE IF pc \in {"load_shapes", "save_shapes"} THEN
       /\ parallel_for(second_phase(pc))
       /\ UNCHANGED <<scene, error, result>>
     ELSE
       /\ scene' = IF pc = "load_textures" THEN fix_scene(scene) ELSE scene
       /\ result' = "true"
       /\ pc' = "done"
       /\ UNCHANGED <<error, pfvars>>
  /\ UNCHANGED <<op, filename, noparallel, nthreads, files, written, scene0,
                 texture, overread, opened, localvars, calls>>

-----------------------------------------------------------------------------
(* GENERIC SCENE LOADING *)

Finished(res, sc, err) ==
  /\ pc' = "done"
  /\ result' = res
  /\ scene' = sc
  /\ error' = err

\* load_json_scene after the version checks: parse, load resources, fix scene
LoadParsed(json) ==
  \E parsed \in {parse_scene(json, scene)}, loc \in {load_locals(json)} :
    IF noparallel THEN
      \E r \in {resources_noparallel("load_shapes", "load_textures", loc,
                  path_dirname(filename), World(parsed, files, written))} :
        /\ IF r.outcome = "ok"
             THEN Finished("true", fix_scene(r.world.scene), error)
             ELSE Finished("false", r.world.scene,
                           dependent_error("cannot load", filename, r.error))
        /\ calls' = r.calls
        /\ UNCHANGED <<localvars, pfvars>>
    ELSE
      /\ scene' = parsed
      /\ shape_types' = loc.shape_types
      /\ shape_filenames' = loc.shape_filenames
      /\ shape_borders' = loc.shape_borders
      /\ texture_filenames' = loc.texture_filenames
      /\ parallel_for("load_shapes")
      /\ UNCHANGED <<error, result, calls>>

\* load_scene(filename, scene, error, noparallel) with load_json_scene
LoadScene ==
  /\ pc = "call"
  /\ op \in {"load_scene", "reload"}
  /\ \E ext \in {path_extension(filename)}, j \in {load_json(files, filename)} :
       IF ~(ext = ".json" \/ ext = ".JSON") THEN
         /\ Finished("false", scene, Msg("unsupported format", filename))
         /\ UNCHANGED <<localvars, pfvars, calls>>
       ELSE IF ~j.ok THEN
         /\ Finished("false", scene, j.error)
         /\ UNCHANGED <<localvars, pfvars, calls>>
       ELSE IF ~version_ok(j.json) THEN
         /\ Finished("false", scene, error)
         /\ UNCHANGED <<localvars, pfvars, calls>>
       ELSE IF ~version_parses(j.json) THEN
         /\ Finished("false",
                     [scene EXCEPT !.copyright =
                        get_opt(j.json["asset"], "copyright", @)],
                     Msg("cannot parse", filename))
         /\ UNCHANGED <<localvars, pfvars, calls>>
       ELSE LoadParsed(j.json)
  /\ UNCHANGED <<op, filename, noparallel, nthreads, files, written, scene0,
                 texture, overread, opened>>

\* save_json_scene after the document is written: the side files
SaveResources(fs) ==
  \E loc \in {save_locals(scene)} :
    IF noparallel THEN
      \E r \in {resources_noparallel("save_shapes", "save_textures", loc,
                  path_dirname(filename),
                  World(scene, fs, Called(written, filename)))} :
        /\ IF r.outcome = "ok" THEN Finished("true", scene, error)
           ELSE IF r.outcome = "throw" THEN Finished("throw", scene, error)
           ELSE Finished("false", scene,
                         dependent_error("cannot save", filename, r.error))
        /\ files' = r.world.files
        /\ written' = r.world.written
        /\ calls' = r.calls
        /\ UNCHANGED <<localvars, pfvars>>
    ELSE
      /\ files' = fs
      /\ written' = Called(written, filename)
      /\ shape_filenames' = loc.shape_filenames
      /\ texture_filenames' = loc.texture_filenames
      /\ parallel_for("save_shapes")
      /\ UNCHANGED <<scene, error, result, shape_types, shape_borders, calls>>

\* save_scene(filename, scene, error, noparallel) with save_json_scene
SaveScene ==
  /\ pc = "call"
  /\ op = "save_scene"
  /\ \E ext \in {path_extension(filename)},
        doc \in {save_binary(files, filename,
                             [kind |-> "json", json |-> save_json(scene)])} :
       IF ~(ext = ".json" \/ ext = ".JSON") THEN
         /\ Finished("false", scene, Msg("unsupported format", filename))
         /\ UNCHANGED <<files, written, localvars, pfvars, calls>>
       ELSE IF ~doc.ok THEN
         /\ Finished("false", scene, doc.error)
         /\ UNCHANGED <<files, written, localvars, pfvars, calls>>
       ELSE SaveResources(doc.files)
  /\ UNCHANGED <<op, filename, noparallel, nthreads, scene0, texture, overread, opened>>

\* save_texture(filename, texture, error) called on its own
SaveTexture ==
  /\ pc = "call"
  /\ op = "save_texture"
  /\ LET r == save_texture(files, filename, texture) IN
       /\ pc' = "done"
       /\ result' = IF r.outcome = "ok" THEN "true"
                    ELSE IF r.outcome = "error" THEN "false" ELSE r.outcome
       /\ error' = IF r.outcome = "error" THEN r.error ELSE error
       /\ files' = r.files
       /\ written' = IF r.outcome = "ok" THEN Called(written, filename)
                     ELSE written
  /\ UNCHANGED <<op, filename, noparallel, nthreads, scene, scene0, texture, overread, opened,
                 localvars, pfvars, calls>>

\* load_texture(filename, texture, error) called on its own
LoadTexture ==
  /\ pc = "call"
  /\ op = "load_texture"
  /\ LET r == load_texture(files, filename, texture) IN
       /\ pc' = "done"
       /\ result' = IF r.ok THEN "true" ELSE "false"
       /\ error' = IF r.ok THEN error ELSE r.error
       /\ texture' = r.texture
       /\ opened' = opened \cup r.opened
  /\ UNCHANGED <<op, filename, noparallel, nthreads, files, written, scene,
                 scene0, overread, localvars, pfvars, calls>>

\* load_image(filename, image, error)
LoadImage ==
  /\ pc = "call"
  /\ op = "load_image"
  /\ LET r == load_image(files, filename, texture) IN
       /\ pc' = "done"
       /\ result' = IF r.ok THEN "true" ELSE "false"
       /\ error' = IF r.ok THEN error ELSE r.error
       /\ texture' = r.image
       /\ opened' = opened \cup r.opened
  /\ UNCHANGED <<op, filename, noparallel, nthreads, files, written, scene,
                 scene0, overread, localvars, pfvars, calls>>

\* the caller runs the repair functions over the scene a load returned, and
\* then once more: add_missing_camera, add_missing_radius, add_missing_caps,
\* add_missing_material, trim_memory
RepairScene ==
  /\ pc = "done"
  /\ result = "true"
  /\ op \in {"load_scene", "repair"}
  /\ op' = IF op = "load_scene" THEN "repair" ELSE "repair_again"
  /\ scene' = trim_memory(add_missing_material(add_missing_caps(
                 add_missing_radius(add_missing_camera(scene)))))
  /\ UNCHANGED <<filename, noparallel, nthreads, files, written, scene0,
                 texture, overread, opened, error, result, pc, localvars,
                 pfvars, calls>>

\* the caller loads the document save_scene has just written into a new
\* scene object: load_scene(filename, noparallel)
Reload ==
  /\ pc = "done"
  /\ op = "save_scene"
  /\ result = "true"
  /\ op' = "reload"
  /\ pc' = "call"
  /\ result' = "none"
  /\ scene0' = scene
  /\ scene' = scene_data
  /\ error' = <<>>
  /\ calls' = NoCalls
  /\ written' = NoCalls
  /\ shape_types' = <<>>
  /\ shape_filenames' = <<>>
  /\ shape_borders' = <<>>
  /\ texture_filenames' = <<>>
  /\ pf_reset
  /\ UNCHANGED <<filename, noparallel, nthreads, files, texture, overread, opened>>

-----------------------------------------------------------------------------
(* The inputs the model draws from *)

DocDir == Path(<<"dir">>, "", "")

DirEntry == [kind |-> "dir"]

TriangleMesh ==
  [kind |-> "mesh", positions |-> <<"p0", "p1", "p2">>, radius |-> <<>>,
   points |-> <<>>, lines |-> <<>>, triangles |-> <<<<0, 1, 2>>>>,
   quads |-> <<>>]

LineMesh ==
  [kind |-> "mesh", positions |-> <<"p0", "p1">>, radius |-> <<>>,
   points |-> <<>>, lines |-> <<<<0, 1>>>>, triangles |-> <<>>,
   quads |-> <<>>]

EmptyMesh ==
  [kind |-> "mesh", positions |-> <<>>, radius |-> <<>>, points |-> <<>>,
   lines |-> <<>>, triangles |-> <<>>, quads |-> <<>>]

ByteImage ==
  [kind |-> "image", linear |-> FALSE, width |-> 1, height |-> 1,
   pixels |-> <<"b0">>]

FloatImage ==
  [kind |-> "image", linear |-> TRUE, width |-> 1, height |-> 1,
   pixels |-> <<"f0">>]

\* the side files on disk when a document is loaded; "missing<i>" files are
\* not there
ResourceFiles ==
  (DocDir :> DirEntry)
    @@ (Path(<<"dir", "shapes">>, "", "") :> DirEntry)
    @@ (Path(<<"dir", "textures">>, "", "") :> DirEntry)
    @@ (Path(<<"dir", "shapes">>, "mesh", ".ply") :> TriangleMesh)
    @@ (Path(<<"dir", "shapes">>, "curve", ".ply") :> LineMesh)
    @@ (Path(<<"dir", "shapes">>, "empty", ".ply") :> EmptyMesh)
    @@ (Path(<<"dir", "textures">>, "image", ".png") :> ByteImage)
    @@ (Path(<<"dir", "textures">>, "image", ".hdr") :> FloatImage)

\* shape elements of a document, by the position they take in "shapes"
ShapeKinds == {"mesh", "missing", "line"}

ShapeElement(kind, idx) ==
  IF kind = "mesh" THEN
    [name |-> "mesh", uri |-> Path(<<"shapes">>, "mesh", ".ply"),
     border_size |-> "0.5"]
  ELSE IF kind = "missing" THEN
    [uri |-> Path(<<"shapes">>, "missing" \o ToString(idx), ".ply")]
  ELSE IF kind = "curve" THEN
    [name |-> "curve", uri |-> Path(<<"shapes">>, "curve", ".ply")]
  ELSE IF kind = "arrow" THEN
    [type |-> "line", position1 |-> "p0", position2 |-> "p1",
     arrow2 |-> TRUE]
  ELSE IF kind = "bare" THEN
    <<>>
  ELSE IF kind \in {"point", "triangle", "quad"} THEN
    [type |-> kind, position1 |-> "p0"]
  ELSE
    [type |-> "line", position1 |-> "p0", position2 |-> "p1"]

TextureKinds == {"image", "missing"}

TextureElement(kind, idx) ==
  IF kind = "image" THEN
    [name |-> "image", uri |-> Path(<<"textures">>, "image", ".png")]
  ELSE IF kind = "bare" THEN
    <<>>
  ELSE
    [uri |-> Path(<<"textures">>, "missing" \o ToString(idx), ".png")]

Assets ==
  {[version |-> "4.2", copyright |-> "(c)"], [version |-> "5.0"],
   [version |-> "3.0"], [copyright |-> "(c)"]}

\* the groups other than shapes and textures
NoEntities == [cameras |-> <<>>, materials |-> <<>>, instances |-> <<>>]

Entities ==
  [cameras |-> <<[name |-> "cam", lens |-> "0.085"]>>,
   materials |-> <<[name |-> "red", color |-> "1 0 0"]>>,
   instances |-> <<[shape |-> 0, material |-> 0, border_material |-> 0],
                   [shape |-> 0, material |-> invalidid]>>]

Document(entities, shapekinds, texturekinds) ==
  LET groups == {"cameras", "materials", "instances", "shapes", "textures",
                 "extras"}
  IN [g \in groups |->
       IF g = "shapes"
         THEN [i \in 1 .. Len(shapekinds) |-> ShapeElement(shapekinds[i], i - 1)]
       ELSE IF g = "textures"
         THEN [i \in 1 .. Len(texturekinds) |->
                 TextureElement(texturekinds[i], i - 1)]
       ELSE IF g = "extras" THEN <<>>
       ELSE entities[g]]

WithAsset(json, asset) ==
  [g \in DOMAIN json \cup {"asset"} |-> IF g = "asset" THEN asset ELSE json[g]]

\* "bare" elements are objects without any field
Documents ==
  LET bare == [cameras |-> << <<>> >>, materials |-> << <<>> >>,
               instances |-> << <<>> >>]
      bodies == {Document(Entities, s, t) :
                   s \in SeqsUpTo(ShapeKinds, MaxShapes),
                   t \in SeqsUpTo(TextureKinds, MaxTextures)}
                  \cup {Document(NoEntities, s, <<>>) :
                          s \in SeqsUpTo(ShapeKinds, 1)}
                  \cup {Document(Entities, <<kind>>, <<>>) :
                          kind \in {"curve", "arrow", "bare", "point",
                                    "triangle", "quad"}}
                  \cup {Document(bare, <<>>, t) : t \in {<<>>, <<"bare">>}}
                  \cup {Document([Entities EXCEPT
                                    !.instances = Append(@, [shape |-> 0])],
                                  <<>>, <<>>)}
  IN bodies \cup {WithAsset(b, a) : b \in bodies, a \in Assets}

\* what the document path holds: a document, text that is no JSON, or nothing
DocumentFiles ==
  {[kind |-> "json", json |-> d] : d \in Documents} \cup {[kind |-> "text"]}

\* the scene object handed to load_scene: a new one, or one a previous load
\* filled (without shapes or textures)
PriorScenes ==
  {scene_data,
   [scene_data EXCEPT !.cameras = <<camera_data>>,
                      !.camera_names = <<"old">>,
                      !.copyright = "old"]}

ScenePath == Path(<<"dir">>, "scene", ".json")

\* other spellings of the document path, and a path that is no document
OtherNames ==
  {Path(<<"dir">>, "scene", ".JSON"), Path(<<"dir">>, "scene", ".Json"),
   Path(<<"dir">>, "scene", ".obj")}

SmallDocument ==
  WithAsset(Document(NoEntities, <<"mesh">>, <<>>),
            [version |-> "4.2"])

\* scenes handed to save_scene: every entity named, a camera and a material
\* present, radius and end caps filled in
SavedShapeKinds == {"mesh", "bordered", "curve"}

SavedShape(kind) ==
  IF kind = "mesh" THEN
    [shape_data EXCEPT !.positions = <<"p0", "p1", "p2">>,
                       !.triangles = <<<<0, 1, 2>>>>]
  ELSE IF kind = "bordered" THEN
    [shape_data EXCEPT !.positions = <<"p0", "p1", "p2">>,
                       !.triangles = <<<<0, 1, 2>>>>,
                       !.border_radius = "0.5"]
  ELSE
    [shape_data EXCEPT !.positions = <<"p0", "p1">>,
                       !.lines = <<<<0, 1>>>>,
                       !.radius = <<"0.002", "0.002">>,
                       !.ends = <<line_end_cap, line_end_cap>>]

SavedTextureKinds == {"bytes", "floats", "both"}

SavedTexture(kind) ==
  [texture_data EXCEPT !.width = 1, !.height = 1,
                       !.linear = (kind # "bytes"),
                       !.pixelsf = IF kind = "bytes" THEN <<>> ELSE <<"f0">>,
                       !.pixelsb = IF kind = "floats" THEN <<>> ELSE <<"b0">>]

SavedInstances ==
  <<[instance_data EXCEPT !.shape = 0, !.material = 0],
    [instance_data EXCEPT !.shape = 0, !.material = 0,
                          !.border_material = 0]>>

SavedScene(shapekinds, texturekinds, instances) ==
  [scene_data EXCEPT
     !.cameras = <<[camera_data EXCEPT !.lens = "0.085"]>>,
     !.camera_names = <<"cam">>,
     !.materials = <<[material_data EXCEPT !.color = "1 0 0"]>>,
     !.material_names = <<"red">>,
     !.shapes = [i \in 1 .. Len(shapekinds) |-> SavedShape(shapekinds[i])],
     !.shape_names = [i \in 1 .. Len(shapekinds) |->
                        shapekinds[i] \o ToString(i - 1)],
     !.textures = [i \in 1 .. Len(texturekinds) |->
                     SavedTexture(texturekinds[i])],
     !.texture_names = [i \in 1 .. Len(texturekinds) |->
                          texturekinds[i] \o ToString(i - 1)],
     !.instances = instances,
     !.instance_names = [i \in 1 .. Len(instances) |-> "inst"],
     !.copyright = "(c)"]

\* a scene whose shapes and textures have the display name "", or no entry
\* in the name arrays
Unnamed(sc, how) ==
  [sc EXCEPT
     !.shape_names = IF how = "empty" THEN Map(@, LAMBDA n : "") ELSE <<>>,
     !.texture_names = IF how = "empty" THEN Map(@, LAMBDA n : "") ELSE <<>>]

SavedScenes ==
  {SavedScene(s, t, IF s = <<>> THEN <<>> ELSE SavedInstances) :
     s \in SeqsUpTo(SavedShapeKinds, MaxShapes),
     t \in SeqsUpTo(SavedTextureKinds, MaxTextures)}
    \cup {Unnamed(SavedScene(<<"mesh", "curve">>, <<"bytes">>, <<>>), how) :
            how \in {"empty", "absent"}}
    \cup {[SavedScene(<<>>, <<"bytes">>, <<>>) EXCEPT
             !.textures = <<texture_data>>]}

\* the directories are there when save_scene is called
SaveFiles ==
  (DocDir :> DirEntry)
    @@ (Path(<<"dir", "shapes">>, "", "") :> DirEntry)
    @@ (Path(<<"dir", "textures">>, "", "") :> DirEntry)

\* arguments of save_texture
TextureExtensions ==
  {".png", ".PNG", ".jpg", ".JPG", ".jpeg", ".JPEG", ".tga", ".TGA", ".bmp",
   ".BMP", ".hdr", ".HDR", ".exr", ".EXR", ".Png", ".txt"}

TextureArguments == {SavedTexture(k) : k \in SavedTextureKinds}

\* arguments of load_image and load_texture: presets of the catalog and
\* others, image files that are there, and a name that is no image
ImagePaths ==
  {Path(<<"dir">>, name, ".ypreset") :
     name \in {"grid", "sky", "nosuch", "grid.v2", "nosuch.v2"}}
    \cup {Path(<<"dir">>, "grid", ".YPRESET"),
          Path(<<"dir", "textures">>, "image", ".png"),
          Path(<<"dir", "textures">>, "image", ".hdr"),
          Path(<<"dir", "textures">>, "missing", ".png"),
          Path(<<"dir", "textures">>, "image", ".txt")}

\* the outcomes of an encoder that reads past the end of its buffer
Overreads == {"encodes", "fails", "crashes"}

-----------------------------------------------------------------------------
(* The specification *)

\* std::thread::hardware_concurrency() is read by parallel_for only
InitCall ==
  /\ noparallel \in BOOLEAN
  /\ nthreads \in IF noparallel THEN {1} ELSE 0 .. MaxThreads
  \* save_scene names each texture file after the buffer that is filled, so
  \* only save_texture called on its own hands an encoder a short buffer
  /\ overread \in IF op = "save_texture" THEN Overreads ELSE {"fails"}
  /\ written = NoCalls
  /\ opened = {}
  /\ error = <<>>
  /\ result = "none"
  /\ pc = "call"
  /\ shape_types = <<>>
  /\ shape_filenames = <<>>
  /\ shape_borders = <<>>
  /\ texture_filenames = <<>>
  /\ pf_idle
  /\ calls = NoCalls

\* load_scene of ScenePath, over what the path may hold
InitLoad ==
  /\ op = "load_scene"
  /\ filename = ScenePath
  /\ \/ files = ResourceFiles
     \/ \E f \in DocumentFiles : files = (ScenePath :> f) @@ ResourceFiles
  /\ scene0 \in PriorScenes
  /\ scene = scene0
  /\ texture = texture_data
  /\ InitCall

\* load_scene of a small document under other names
InitLoadNamed ==
  /\ op = "load_scene"
  /\ filename \in OtherNames
  /\ files = (filename :> [kind |-> "json", json |-> SmallDocument])
               @@ ResourceFiles
  /\ scene0 = scene_data
  /\ scene = scene0
  /\ texture = texture_data
  /\ InitCall

\* save_scene into directories that are there, or where shapes/ and
\* textures/, or all three, are yet to be made
InitSave ==
  /\ op = "save_scene"
  /\ filename = ScenePath
  /\ \/ /\ files = SaveFiles
        /\ scene0 \in SavedScenes
     \/ /\ files \in {(DocDir :> DirEntry), <<>>}
        /\ scene0 \in {SavedScene(s, <<"bytes">>, <<>>) :
                          s \in {<<>>, <<"mesh">>}}
  /\ scene = scene0
  /\ texture = texture_data
  /\ InitCall

InitSaveTexture ==
  /\ op = "save_texture"
  /\ \E ext \in TextureExtensions : filename = Path(<<"dir">>, "image", ext)
  /\ files = SaveFiles
  /\ scene0 = scene_data
  /\ scene = scene0
  /\ texture \in TextureArguments
  /\ InitCall

\* load_image / load_texture of a path that may or may not be on disk
InitLoadImage ==
  /\ op \in {"load_image", "load_texture"}
  /\ filename \in ImagePaths
  /\ \/ files = ResourceFiles
     \/ files = (filename :> ByteImage) @@ ResourceFiles
  /\ scene0 = scene_data
  /\ scene = scene0
  /\ texture = IF op = "load_image" THEN image_data ELSE texture_data
  /\ InitCall

Init ==
  \/ InitLoad
  \/ InitLoadNamed
  \/ InitSave
  \/ InitSaveTexture
  \/ InitLoadImage

Next ==
  \/ LoadScene
  \/ SaveScene
  \/ SaveTexture
  \/ LoadTexture
  \/ LoadImage
  \/ Reload
  \/ RepairScene
  \/ \E w \in Workers : WorkerCheck(w)
  \/ \E w \in Workers : WorkerFetch(w)
  \/ \E w \in Workers : WorkerCall(w)
  \/ \E w \in Workers : WorkerFlag(w)
  \/ \E w \in Workers : WorkerError(w)
  \/ Join
  \/ JoinThrow
  \/ Unwind
  \/ Return

Spec == Init /\ [][Next]_vars

\* the steps of parallel_for: its worker tasks and the caller waiting for them
Worker(w) ==
  \/ WorkerCheck(w)
  \/ WorkerFetch(w)
  \/ WorkerCall(w)
  \/ WorkerFlag(w)
  \/ WorkerError(w)

Caller == Join \/ JoinThrow \/ Unwind \/ Return

\* the calls that reach parallel_for: documents whose mesh and image files
\* are there or missing, scenes whose textures save or throw
PoolDocuments ==
  {WithAsset(Document(Entities, s, t), [version |-> "4.2"]) :
     s \in SeqsUpTo({"mesh", "missing"}, MaxShapes),
     t \in SeqsUpTo(TextureKinds, MaxTextures)}

PoolScenes ==
  {SavedScene(s, t, <<>>) :
     s \in SeqsUpTo({"mesh"}, MaxShapes),
     t \in SeqsUpTo({"bytes", "both"}, MaxTextures)}

InitPool ==
  /\ \/ /\ op = "load_scene"
        /\ \E d \in PoolDocuments :
             files = (ScenePath :> [kind |-> "json", json |-> d])
                       @@ ResourceFiles
        /\ scene0 = scene_data
     \/ /\ op = "save_scene"
        /\ files = SaveFiles
        /\ scene0 \in PoolScenes
  /\ filename = ScenePath
  /\ scene = scene0
  /\ texture = texture_data
  /\ InitCall
  /\ ~noparallel

NextPool ==
  \/ LoadScene
  \/ SaveScene
  \/ \E w \in Workers : WorkerCheck(w)
  \/ \E w \in Workers : WorkerFetch(w)
  \/ \E w \in Workers : WorkerCall(w)
  \/ \E w \in Workers : WorkerFlag(w)
  \/ \E w \in Workers : WorkerError(w)
  \/ Join
  \/ JoinThrow
  \/ Unwind
  \/ Return

\* every thread that can take a step is scheduled in the end
FairSpec ==
  /\ InitPool
  /\ [][NextPool]_vars
  /\ WF_vars(Caller)
  /\ WF_vars(\E w \in Workers : Worker(w))

-----------------------------------------------------------------------------
(* The properties *)

Loading == op \in {"load_scene", "reload"}

SupportedName == path_extension(filename) \in {".json", ".JSON"}

HasDocument == load_json(files, filename).ok

\* the document at the path given to load_scene
document == load_json(files, filename).json

HasVersion(versions) ==
  /\ SupportedName
  /\ HasDocument
  /\ contains(document, "asset")
  /\ contains(document["asset"], "version")
  /\ document["asset"]["version"] \in versions

NoVersion ==
  /\ SupportedName
  /\ HasDocument
  /\ \/ ~contains(document, "asset")
     \/ ~contains(document["asset"], "version")
     \/ document["asset"]["version"] \notin {"4.2", "5.0"}

\* the scene object load_scene parses into
LoadBase == IF op = "reload" THEN scene_data ELSE scene0

ParsedWorld == World(parse_scene(document, LoadBase), files, NoCalls)

NumShapes == Len(ParsedWorld.scene.shapes)

NumItems == NumShapes + Len(ParsedWorld.scene.textures)

\* the k-th item in the order of the sequential loops: shapes, then textures
ItemAt(k) ==
  IF k < NumShapes THEN <<"load_shapes", k>>
  ELSE <<"load_textures", k - NumShapes>>

ItemResult(k) ==
  item(ItemAt(k)[1], load_locals(document), path_dirname(filename),
       ParsedWorld, ItemAt(k)[2])

FailingItems == {k \in range(NumItems) : ItemResult(k).outcome # "ok"}

FirstFailing == CHOOSE k \in FailingItems : \A j \in FailingItems : k <= j

\* what the sequential loops make of the current call
SequentialLoad ==
  resources_noparallel("load_shapes", "load_textures", load_locals(document),
                       path_dirname(filename), ParsedWorld)

SequentialSave ==
  resources_noparallel("save_shapes", "save_textures", save_locals(scene0),
                       path_dirname(filename), World(scene0, files, NoCalls))

\* C1: load_scene of a well-formed document whose asset.version is "4.2" or
\* "5.0", with no shapes and no textures, returns success.
C1_VersionAccepted ==
  (op = "load_scene" /\ pc = "done" /\ HasVersion({"4.2", "5.0"})
     /\ NumItems = 0)
    => result = "true"

\* C2: a document with no asset, no asset.version, or a version other than
\* "4.2"/"5.0" makes load_scene return failure at once: no per-item load is
\* called and the repair pass does not touch the scene.
C2_VersionRejected ==
  (Loading /\ NoVersion) =>
    /\ pc \in {"call", "done"}
    /\ calls = NoCalls
    /\ scene = scene0
    /\ pc = "done" => result = "false"

C2_Witness ==
  /\ op = "load_scene"
  /\ pc = "done"
  /\ NoVersion
  /\ contains(document, "asset")
  /\ NumItems > 0
  /\ scene.cameras = <<>>

\* C3: every return of false by load_scene leaves a non-empty error message
\* that names a path.
C3_ErrorNamesPath ==
  (Loading /\ pc = "done" /\ result = "false")
    => (error # <<>> /\ NamesPath(error))

\* C4: when load_scene returns failure the caller's scene is empty or is the
\* scene it was before the call.
C4_FailureContained ==
  (op = "load_scene" /\ pc = "done" /\ result = "false")
    => (scene = scene_data \/ scene = scene0)

\* C5: loading the document save_scene wrote gives back every persisted
\* entity field, the border material of each instance and the border
\* thickness of each shape included.
C5_RoundTrip ==
  (op = "reload" /\ pc = "done" /\ result = "true") =>
    /\ scene.cameras = scene0.cameras
    /\ scene.materials = scene0.materials
    /\ scene.instances = scene0.instances
    /\ scene.copyright = scene0.copyright
    /\ Len(scene.shapes) = Len(scene0.shapes)
    /\ \A i \in 1 .. Len(scene0.shapes) :
         scene.shapes[i].border_radius = scene0.shapes[i].border_radius

\* C6: when every resource of the document loads, load_scene with
\* noparallel = false returns the scene the sequential loops produce,
\* whatever the interleaving of the worker tasks.
C6_ParallelEqualsSequential ==
  (op = "load_scene" /\ ~noparallel /\ pc = "done" /\ HasVersion({"4.2"})
     /\ SequentialLoad.outcome = "ok")
    => (result = "true" /\ scene = fix_scene(SequentialLoad.world.scene))

\* C7: with noparallel = true, when items fail to load the error reported is
\* that of the first failing item in the order shapes, then textures; every
\* item up to it is called once and no item after it is called.
C7_LowestIndexFails ==
  (Loading /\ noparallel /\ pc = "done" /\ HasVersion({"4.2"})
     /\ FailingItems # {})
    => /\ result = "false"
       /\ error = dependent_error("cannot load", filename,
                                  ItemResult(FirstFailing).error)
       /\ \A k \in range(NumItems) :
            TimesCalled(calls, ItemAt(k)) = IF k <= FirstFailing THEN 1 ELSE 0

C7_Witness ==
  /\ op = "load_scene"
  /\ noparallel
  /\ pc = "done"
  /\ HasVersion({"4.2"})
  /\ Cardinality(FailingItems) >= 2
  /\ FirstFailing >= 1
  /\ result = "false"

\* the times an item has been handed to the per-item function, counting the
\* workers that hold its index and are about to call
Claimed(phase, idx) ==
  TimesCalled(calls, <<phase, idx>>)
    + Cardinality({w \in DOMAIN wpc :
                     pc = phase /\ wpc[w] = "call" /\ widx[w] = idx})

OpPhases ==
  IF op = "save_scene" THEN {"save_shapes", "save_textures"}
  ELSE {"load_shapes", "load_textures"}

\* whether the call reaches its parallel_for calls, and no item of them fails
NoItemFails ==
  IF op = "save_scene" THEN SequentialSave.outcome = "ok"
  ELSE HasVersion({"4.2"}) /\ SequentialLoad.outcome = "ok"

\* C8: parallel_for with at least one worker hands each index to at most one
\* worker; when no item fails every index is passed to the function exactly
\* once and the call returns success.
C8_EachIndexOnce ==
  (op # "save_texture" /\ ~noparallel /\ nthreads >= 1) =>
    /\ \A phase \in Phases, idx \in range(MaxShapes + MaxTextures) :
         Claimed(phase, idx) <= 1
    /\ (pc = "done" /\ NoItemFails) =>
         /\ result = "true"
         /\ \A phase \in OpPhases :
              \A idx \in range(items(phase, scene)) :
                TimesCalled(calls, <<phase, idx>>) = 1

C8_Witness ==
  /\ op = "load_scene"
  /\ ~noparallel
  /\ nthreads >= 2
  /\ pc = "done"
  /\ result = "true"
  /\ Len(scene.shapes) >= 2
  /\ TimesCalled(calls, <<"load_shapes", 1>>) = 1

AllWorkersReturned == \A w \in DOMAIN wpc : wpc[w] = "done"

\* C9: a call of parallel_for comes to an end, and it hands its result to the
\* caller only when every worker task it spawned has returned.
C9_JoinsAllWorkers ==
  /\ (pc \in Phases) ~> (pc = "done")
  /\ [](pc = "done" => AllWorkersReturned)
  /\ [][(pc \in Phases /\ pc' # pc) => AllWorkersReturned]_vars

C9_Witness ==
  /\ ~noparallel
  /\ nthreads >= 2
  /\ pc = "done"
  /\ result = "false"
  /\ has_error
  /\ Cardinality(DOMAIN calls) >= 2

ByteOnlyExtensions ==
  {".png", ".PNG", ".jpg", ".JPG", ".jpeg", ".JPEG", ".tga", ".TGA", ".bmp",
   ".BMP"}

FloatOnlyExtensions == {".hdr", ".HDR", ".exr", ".EXR"}

\* C10: save_texture of float pixels to a byte-only extension, or of byte
\* pixels to a float-only extension, in either casing, fails and writes no
\* file.
C10_MismatchFailsFast ==
  (op = "save_texture" /\ pc = "done"
     /\ \/ texture.pixelsf # <<>> /\ path_extension(filename) \in ByteOnlyExtensions
        \/ texture.pixelsb # <<>> /\ path_extension(filename) \in FloatOnlyExtensions)
    => (result # "true" /\ files = SaveFiles /\ written = NoCalls)

\* the lowercase spelling of the extensions the calls are made with
Lowercase(ext) ==
  CASE ext \in {".JSON", ".Json"} -> ".json"
    [] ext \in {".PNG", ".Png"} -> ".png"
    [] ext = ".JPG" -> ".jpg"
    [] ext = ".JPEG" -> ".jpeg"
    [] ext = ".TGA" -> ".tga"
    [] ext = ".BMP" -> ".bmp"
    [] ext = ".HDR" -> ".hdr"
    [] ext = ".EXR" -> ".exr"
    [] OTHER -> ext

UnsupportedFormat ==
  result = "false" /\ error = Msg("unsupported format", filename)

\* C11: the dispatch on the extension does not depend on letter casing: a
\* call fails with "unsupported format <path>" exactly when the lowercase
\* spelling of its extension is not one the function supports (".json" for
\* load_scene; the byte and float image extensions for save_texture).
C11_CaseInsensitiveDispatch ==
  pc = "done" =>
    /\ op = "load_scene" =>
         (UnsupportedFormat <=> Lowercase(path_extension(filename)) # ".json")
    /\ op = "save_texture" =>
         (UnsupportedFormat <=>
            Lowercase(path_extension(filename))
              \notin {".png", ".jpg", ".jpeg", ".tga", ".bmp", ".hdr", ".exr"})

LoadsImage == op \in {"load_image", "load_texture"}

PresetPath == path_extension(filename) \in {".ypreset", ".YPRESET"}

\* the image_data or texture_data the call filled holds pixels
NonEmptyImage ==
  /\ texture.width > 0
  /\ texture.height > 0
  /\ IF op = "load_image" THEN texture.pixels # <<>>
     ELSE texture.pixelsf # <<>> \/ texture.pixelsb # <<>>

\* C12: load_image and load_texture of a ".ypreset" path return success with
\* a non-empty image when the stem of the path is in the preset catalog and
\* failure with the error "unknown preset" when it is not; in both cases no
\* file is opened.
C12_UnknownPreset ==
  (LoadsImage /\ pc = "done" /\ PresetPath) =>
    /\ opened = {}
    /\ IF path_basename(filename) \in PresetCatalog
         THEN result = "true" /\ NonEmptyImage
         ELSE result = "false" /\ error = Msg("unknown preset", EmptyPath)

LoadSucceeded == Loading /\ pc = "done" /\ result = "true"

\* the instances the document left without a material
Unmaterialed ==
  {i \in 1 .. Len(ParsedWorld.scene.instances) :
     ParsedWorld.scene.instances[i].material < 0}

\* C13: after a successful load_scene every instance has a material index
\* that is non-negative and in range: the instances the document left
\* without a material share one default material (color 0.8 0.8 0.8) the
\* load appended once, and no material is appended when there is none.
C13_ValidMaterials ==
  LoadSucceeded =>
    /\ \A i \in 1 .. Len(scene.instances) :
         /\ scene.instances[i].material >= 0
         /\ scene.instances[i].material < Len(scene.materials)
    /\ IF Unmaterialed = {}
         THEN scene.materials = ParsedWorld.scene.materials
         ELSE /\ scene.materials =
                   Append(ParsedWorld.scene.materials,
                          [material_data EXCEPT !.color = "0.8 0.8 0.8"])
              /\ \A i \in Unmaterialed :
                   scene.instances[i].material =
                     Len(ParsedWorld.scene.materials)

\* C14: the repair steps are idempotent: a second pass of add_missing_camera,
\* add_missing_radius, add_missing_caps, add_missing_material and trim_memory
\* over a scene they were applied to leaves the scene as it is (cameras,
\* materials, radius and end-cap arrays, material indices).
C14_RepairIdempotent ==
  [][(op = "repair" /\ op' = "repair_again") => scene' = scene]_vars

\* a second pass has run over a scene that the first pass gave a default
\* material and default radii
C14_Witness ==
  /\ op = "repair_again"
  /\ Len(scene.materials) > Len(scene.material_names)
  /\ \E i \in 1 .. Len(scene.instances) :
       scene.instances[i].material = Len(scene.materials) - 1
  /\ \E i \in 1 .. Len(scene.shapes) :
       scene.shapes[i].radius = <<default_radius, default_radius>>

\* the cameras the document declares, as parsed
DeclaredCameras == Map(group(document, "cameras"), parse_camera)

\* C15: after a successful load_scene the scene has at least one camera: a
\* document that declares no camera gets exactly one synthesized camera, and
\* a document that declares cameras gets none added and its cameras' fields
\* are as parsed.
C15_CameraPresent ==
  LoadSucceeded =>
    /\ Len(scene.cameras) >= 1
    /\ scene.cameras =
         LoadBase.cameras \o
           (IF DeclaredCameras = <<>>
              THEN add_missing_camera(scene_data).cameras
              ELSE DeclaredCameras)

\* the shape elements of the document that are inline lines
InlineLines ==
  {i \in 1 .. Len(group(document, "shapes")) :
     parse_shape_type(group(document, "shapes")[i]) = "line"}

\* the shape of the scene that the i-th shape element was parsed into
LoadedShape(i) == scene.shapes[Len(LoadBase.shapes) + i]

\* C16: after a successful load_scene an inline "line" shape that gives
\* position1 and position2 and no radius1/radius2 has 2 positions, the one
\* line {0, 1}, and the default radius 0.001 on both vertices.
C16_InlineLineRadius ==
  LoadSucceeded =>
    \A i \in InlineLines :
      LET line == group(document, "shapes")[i] IN
        (~contains(line, "radius1") /\ ~contains(line, "radius2")) =>
          /\ Len(LoadedShape(i).positions) = 2
          /\ LoadedShape(i).lines = <<<<0, 1>>>>
          /\ LoadedShape(i).radius = <<default_radius, default_radius>>

\* the end-cap flag an inline line element asks for at one of its vertices
AskedEnd(line, key) ==
  IF contains(line, key) THEN line[key] ELSE line_end_cap

\* C17: after a successful load_scene an inline "line" shape has the end-cap
\* flag "capped" on each vertex whose arrow field (arrow1, arrow2) is absent,
\* and arrow1 / arrow2 when present set the flag of their own vertex only.
C17_InlineLineCaps ==
  LoadSucceeded =>
    \A i \in InlineLines :
      LoadedShape(i).ends =
        <<AskedEnd(group(document, "shapes")[i], "arrow1"),
          AskedEnd(group(document, "shapes")[i], "arrow2")>>

C17_Witness ==
  /\ LoadSucceeded
  /\ \E i \in InlineLines :
       /\ ~contains(group(document, "shapes")[i], "arrow1")
       /\ contains(group(document, "shapes")[i], "arrow2")
       /\ LoadedShape(i).ends = <<line_end_cap, line_end_arrow>>

\* the document save_scene wrote in this call
SavedDocument == files[filename].json

DocumentSaved == op = "save_scene" /\ TimesCalled(written, filename) >= 1

\* the name a side file is to get: the display name, or <kind><index> for
\* an entity that has none
FileStem(names, idx, kind) ==
  IF idx < Len(names) /\ At(names, idx) # ""
    THEN At(names, idx) ELSE kind \o ToString(idx)

\* ".png" for byte pixels (or none), ".hdr" for float pixels
FileExtensions(tex) ==
  IF tex.pixelsf = <<>> THEN {".png"}
  ELSE IF tex.pixelsb = <<>> THEN {".hdr"}
  ELSE {".png", ".hdr"}

\* the paths the side files are to get
ShapeFile(i) ==
  Path(<<"shapes">>, FileStem(scene.shape_names, i - 1, "shape"), ".ply")

TextureFiles(i) ==
  {Path(<<"textures">>, FileStem(scene.texture_names, i - 1, "texture"), ext) :
     ext \in FileExtensions(scene.textures[i])}

\* C18: save_scene gives shape i the path shapes/<name>.ply and texture i the
\* path textures/<name>.png (byte pixels) or textures/<name>.hdr (float
\* pixels), where <name> is the display name of the entity, or <kind><index>
\* when the display name is "" or the name array has no entry for it: the
\* document refers to these paths and no side file is written anywhere else.
C18_SaveFileNaming ==
  DocumentSaved =>
    /\ \A i \in 1 .. Len(scene.shapes) :
         SavedDocument["shapes"][i]["uri"] = ShapeFile(i)
    /\ \A i \in 1 .. Len(scene.textures) :
         SavedDocument["textures"][i]["uri"] \in TextureFiles(i)
    /\ \A p \in DOMAIN written :
         \/ p = filename
         \/ \E i \in 1 .. Len(scene.shapes) :
              p = path_join(path_dirname(filename), ShapeFile(i))
         \/ \E i \in 1 .. Len(scene.textures) :
              \E q \in TextureFiles(i) :
                p = path_join(path_dirname(filename), q)

\* every side file the document names is there and loads
NamedResourcesLoad ==
  /\ \A i \in 1 .. Len(group(document, "shapes")) :
       LET shape == group(document, "shapes")[i] IN
         (parse_shape_type(shape) = "uri" /\ contains(shape, "uri")) =>
           load_shape(files, path_join(path_dirname(filename), shape["uri"])).ok
  /\ \A i \in 1 .. Len(group(document, "textures")) :
       LET tex == group(document, "textures")[i] IN
         contains(tex, "uri") =>
           load_texture(files, path_join(path_dirname(filename), tex["uri"]),
                        texture_data).ok

\* the fields an element leaves out have the values of a default-constructed
\* entity in the entity parsed from it
AbsentAreDefault(key, entities, default) ==
  \A i \in 1 .. Len(group(document, key)) :
    \A field \in DOMAIN default \ DOMAIN group(document, key)[i] :
      entities[Len(LoadBase[key]) + i][field] = default[field]

\* C19: a field missing from an entity object is never an error: load_scene
\* of a version "4.2" document whose named side files all load returns
\* success whichever fields its cameras, textures, materials, shapes and
\* instances leave out ("uri" included), and each absent field has its
\* default-constructed value.
C19_MissingFieldsDefault ==
  (op = "load_scene" /\ pc = "done" /\ HasVersion({"4.2"})
     /\ NamedResourcesLoad)
    => /\ result = "true"
       /\ AbsentAreDefault("cameras", scene.cameras, camera_data)
       /\ AbsentAreDefault("materials", scene.materials, material_data)
       /\ AbsentAreDefault("instances", scene.instances, instance_data)

IsDirectory(p) == path_exists(files, p) /\ files[p].kind = "dir"

\* the directories the files of the scene go into
SceneDirectories ==
  {path_dirname(filename)}
    \cup (IF scene.shapes # <<>>
            THEN {path_join(path_dirname(filename), Dir("shapes"))} ELSE {})
    \cup (IF scene.textures # <<>>
            THEN {path_join(path_dirname(filename), Dir("textures"))} ELSE {})

\* C20: save_scene makes the directory of the document, and shapes/ and
\* textures/ when the scene has shapes and textures, before it writes into
\* them: when it returns, these directories are there, or it has failed and
\* has written neither the document nor a side file.
C20_DirectoriesProvisioned ==
  (op = "save_scene" /\ pc = "done") =>
    \/ \A d \in SceneDirectories : IsDirectory(d)
    \/ result = "false" /\ written = NoCalls

\* one name entry per entity, in each of the five collections
OneNamePerEntity(sc) ==
  /\ Len(sc.camera_names) = Len(sc.cameras)
  /\ Len(sc.material_names) = Len(sc.materials)
  /\ Len(sc.shape_names) = Len(sc.shapes)
  /\ Len(sc.texture_names) = Len(sc.textures)
  /\ Len(sc.instance_names) = Len(sc.instances)

\* C21: after a document is parsed into a scene, and after the repair passes
\* (add_missing_camera, add_missing_material) have run over it, each name
\* array has exactly as many entries as its entity collection.
C21_NameArrays ==
  (op \in {"load_scene", "reload", "repair", "repair_again"}
     /\ pc = "done" /\ result = "true")
    => OneNamePerEntity(scene)

\* the document parsed into a newly constructed scene
FreshScene == parse_scene(document, scene_data)

\* C22: a successful load_scene into a scene object that already holds
\* entities leaves exactly the entities, names and copyright of the document
\* just loaded, plus what the repair adds (one camera for a document without
\* cameras, at most one default material): nothing of the earlier contents
\* is left and the counts do not add up across loads.
C22_ReloadReplaces ==
  (op = "load_scene" /\ pc = "done" /\ result = "true") =>
    /\ scene.cameras =
         (IF FreshScene.cameras = <<>>
            THEN add_missing_camera(scene_data).cameras
            ELSE FreshScene.cameras)
    /\ Len(scene.camera_names) = Len(scene.cameras)
    /\ Len(scene.materials) - Len(FreshScene.materials) \in {0, 1}
    /\ SubSeq(scene.materials, 1, Len(FreshScene.materials))
         = FreshScene.materials
    /\ scene.material_names = FreshScene.material_names
    /\ Len(scene.instances) = Len(FreshScene.instances)
    /\ scene.instance_names = FreshScene.instance_names
    /\ Len(scene.shapes) = Len(FreshScene.shapes)
    /\ scene.shape_names = FreshScene.shape_names
    /\ Len(scene.textures) = Len(FreshScene.textures)
    /\ scene.texture_names = FreshScene.texture_names
    /\ scene.copyright = FreshScene.copyright

\* a worker takes an index from the shared counter and goes on to call the
\* function on it
ClaimsItem(w) == wpc[w] = "fetch" /\ wpc'[w] = "call"

\* C23: in parallel_for, once the shared failure flag is set no worker claims
\* a further item from the shared counter, in any interleaving.
C23_NoClaimAfterFailure ==
  [][(pc \in Phases /\ has_error) =>
       \A w \in DOMAIN wpc : ~ClaimsItem(w)]_vars

\* the messages of the items of the current call that fail
ItemErrors ==
  UNION {{item(phase,
               Locals(shape_types, shape_filenames, shape_borders,
                      texture_filenames),
               path_dirname(filename), World(scene, files, written), idx).error :
            idx \in {i \in range(items(phase, scene)) :
                       item(phase,
                            Locals(shape_types, shape_filenames,
                                   shape_borders, texture_filenames),
                            path_dirname(filename),
                            World(scene, files, written), i).outcome = "error"}} :
         phase \in OpPhases}

\* C24: in parallel_for the shared error message is set once: a message a
\* failing worker has recorded is not overwritten by a worker that fails
\* later, and a run that returns failure returns the message of an item that
\* failed.
C24_FirstErrorPreserved ==
  /\ [][(pc \in Phases /\ pc' = pc /\ error # <<>>) => error' = error]_vars
  /\ [](   (op \in {"load_scene", "save_scene"} /\ pc = "done" /\ has_error)
        => \E e \in ItemErrors :
             error = dependent_error(IF op = "load_scene" THEN "cannot load"
                                     ELSE "cannot save", filename, e))


\* the scene add_missing_material is given in the repair pass: the passes
\* before it have run
BeforeMaterialPass ==
  add_missing_caps(add_missing_radius(add_missing_camera(scene)))

\* the instances (1-based positions) that reach the pass without a material
WithoutMaterial ==
  {i \in 1 .. Len(BeforeMaterialPass.instances) :
     BeforeMaterialPass.instances[i].material < 0}

\* C25: add_missing_material appends at most one material however many
\* instances have a negative material index, gives exactly those instances the
\* index of the new material, and leaves the other instances, the materials
\* there were, the cameras, the shapes and the textures as they are; with no
\* such instance the scene is unchanged.
C25_MissingMaterialFrame ==
  [][(op \in {"load_scene", "repair"} /\ op' \in {"repair", "repair_again"})
       => /\ Len(scene'.materials) <= Len(BeforeMaterialPass.materials) + 1
          /\ SubSeq(scene'.materials, 1, Len(BeforeMaterialPass.materials))
               = BeforeMaterialPass.materials
          /\ Len(scene'.instances) = Len(BeforeMaterialPass.instances)
          /\ \A i \in 1 .. Len(BeforeMaterialPass.instances) :
               IF i \in WithoutMaterial
                 THEN /\ Len(scene'.materials)
                           = Len(BeforeMaterialPass.materials) + 1
                      /\ scene'.instances[i] =
                           [BeforeMaterialPass.instances[i] EXCEPT
                              !.material = Len(scene'.materials) - 1]
                 ELSE scene'.instances[i] = BeforeMaterialPass.instances[i]
          /\ scene'.cameras = BeforeMaterialPass.cameras
          /\ scene'.shapes = BeforeMaterialPass.shapes
          /\ scene'.textures = BeforeMaterialPass.textures
          /\ (WithoutMaterial = {} => scene' = BeforeMaterialPass)]_vars

\* the pass has run over a scene with two instances without a material and one
\* with a material: one material was appended and the two instances share it
C25_Witness ==
  /\ op = "repair"
  /\ Len(scene.instances) = 3
  /\ Len(scene.materials) = Len(FreshScene.materials) + 1
  /\ FreshScene.instances[1].material >= 0
  /\ scene.instances[1] = FreshScene.instances[1]
  /\ \A i \in {2, 3} :
       /\ FreshScene.instances[i].material < 0
       /\ scene.instances[i].material = Len(scene.materials) - 1


\* C26: for every number of workers the platform can report, 0 included, a
\* parallel load or save returns success only if the per-item function was
\* called on every index of both of its parallel_for calls.
C26_SuccessCoversEveryIndex ==
  (op \in {"load_scene", "reload", "save_scene"} /\ ~noparallel
     /\ pc = "done" /\ result = "true")
    => \A phase \in OpPhases :
         \A idx \in range(items(phase, scene)) :
           TimesCalled(calls, <<phase, idx>>) >= 1


PairwiseDistinct(paths) ==
  \A i, j \in 1 .. Len(paths) : i # j => paths[i] # paths[j]

\* C27: in save_scene the paths assigned to distinct shapes are pairwise
\* distinct, and so are the paths assigned to distinct textures, also when
\* display names repeat or are empty: no two entities are written to the same
\* file.
C27_DistinctSavePaths ==
  DocumentSaved =>
    /\ PairwiseDistinct(save_shape_filenames(scene))
    /\ PairwiseDistinct(save_texture_filenames(scene))


ShapePhases == {"load_shapes", "save_shapes"}

TexturePhases == {"load_textures", "save_textures"}

\* the per-item function of a texture phase is called in this step
StartsTextureTask ==
  \E k \in DOMAIN calls' :
    /\ k[1] \in TexturePhases
    /\ TimesCalled(calls', k) > TimesCalled(calls, k)

\* the shape elements of the document that are inline (point, line, triangle,
\* quad)
InlineShapes ==
  {i \in 1 .. Len(group(document, "shapes")) :
     parse_shape_type(group(document, "shapes")[i]) # "uri"}

\* the shape the i-th shape element was parsed into
ParsedShape(i) == ParsedWorld.scene.shapes[Len(LoadBase.shapes) + i]

\* the scene holds the shapes the document was parsed into
ShapesParsed ==
  /\ Loading
  /\ pc \in {"load_shapes", "load_textures", "done"}
  /\ HasVersion({"4.2"})
  /\ Len(scene.shapes) = Len(ParsedWorld.scene.shapes)

ReferencesEverySideFile ==
  /\ filename \in DOMAIN files
  /\ files[filename].kind = "json"
  /\ \A i \in 1 .. Len(scene.shapes) :
       /\ contains(SavedDocument, "shapes")
       /\ contains(SavedDocument["shapes"][i], "uri")
       /\ SavedDocument["shapes"][i]["uri"] = save_shape_filenames(scene)[i]
  /\ \A i \in 1 .. Len(scene.textures) :
       /\ contains(SavedDocument, "textures")
       /\ contains(SavedDocument["textures"][i], "uri")
       /\ SavedDocument["textures"][i]["uri"] = save_texture_filenames(scene)[i]

\* C29: save_scene writes the container document before any shape or texture
\* file; a failure while writing a side file neither removes nor rewrites the
\* document, and when save_scene fails in the side-file phase the document on
\* disk references every side file, the ones never written included.
C29_DocumentFirst ==
  /\ []((op = "save_scene" /\ \E p \in DOMAIN written : p # filename)
          => TimesCalled(written, filename) >= 1)
  /\ [][(DocumentSaved /\ op' = op)
          => /\ filename \in DOMAIN files'
             /\ files'[filename] = files[filename]
             /\ TimesCalled(written', filename) = TimesCalled(written, filename)]_vars
  /\ []((DocumentSaved /\ pc = "done" /\ result # "true")
          => ReferencesEverySideFile)

\* a save has failed on a shape file after it wrote the document, and a side
\* file the document names was never written
C29_Witness ==
  /\ op = "save_scene"
  /\ pc = "done"
  /\ result = "false"
  /\ TimesCalled(written, filename) = 1
  /\ ReferencesEverySideFile
  /\ Len(scene.shapes) >= 2
  /\ \E i \in 1 .. Len(scene.shapes) :
       TimesCalled(written, path_join(path_dirname(filename),
                                      save_shape_filenames(scene)[i])) = 0


\* no texture of the scene has both pixel buffers filled
AtMostOneBuffer ==
  \A i \in 1 .. Len(scene.textures) :
    scene.textures[i].pixelsf = <<>> \/ scene.textures[i].pixelsb = <<>>

\* C30: for a scene whose textures have at most one pixel buffer filled, the
\* extension save_scene picks (".hdr" for float pixels, ".png" for byte pixels
\* or none) never meets save_texture's mismatch check, and save_scene, in
\* sequential and in parallel mode, raises no exception: it ends with true,
\* or with false and an error message.
C30_SaveSceneNeverThrows ==
  (op = "save_scene" /\ AtMostOneBuffer) =>
    /\ \A i \in 1 .. Len(scene.textures) :
         /\ save_texture_filenames(scene)[i].ext =
              IF scene.textures[i].pixelsf # <<>> THEN ".hdr" ELSE ".png"
         /\ ~texture_mismatch(save_texture_filenames(scene)[i],
                              scene.textures[i])
    /\ ~unwinding
    /\ pc = "done" =>
         \/ result = "true"
         \/ result = "false" /\ error # <<>>

\* a parallel save of a scene with a float-only texture has written the
\* texture to its ".hdr" file and returned success
C30_Witness ==
  /\ op = "save_scene"
  /\ ~noparallel
  /\ nthreads >= 1
  /\ pc = "done"
  /\ result = "true"
  /\ Len(scene.textures) >= 1
  /\ scene.textures[1].pixelsf # <<>>
  /\ scene.textures[1].pixelsb = <<>>
  /\ TimesCalled(written, path_join(path_dirname(filename),
                                    save_texture_filenames(scene)[1])) = 1

=============================================================================
